---- MODULE Spec2Model ----
(***************************************************************************)
(* LsdAgglomeration (lsd/agglomerate.py): agglomeration of fragments by    *)
(* local shape descriptors.  Volumes are one-dimensional arrays indexed    *)
(* from 0 (functions on 0..n-1), descriptors have one channel, and a ROI   *)
(* is a record [offset, shape] as in gunpowder's Roi.                      *)
(***************************************************************************)
EXTENDS Integers, FiniteSets, Sequences, TLC

\* ------------------------------------------------------------------ bounds
VolumeLen == 3
MaxLabels == 3
MaxContext == 2
MaxCalls == 1

\* input domains
Downsamples == {1, 2}
TargetValues == {0, 4}
Thresholds == {0, 8}
MaxMergesArgs == {-1, 1}

VARIABLES
    fragments,      \* self.fragments
    segmentation,   \* self.segmentation
    target_lsds,    \* self.target_lsds
    lsds,           \* self.lsds
    context,        \* self.context (physical units)
    voxel_size,     \* self.voxel_size
    downsample,     \* self.lsd_extractor.downsample
    rag_nodes,      \* nodes of self.rag
    rag_edges,      \* edges of self.rag, each a set {u, v}
    node,           \* self.rag.node: attributes 'roi' and 'score'
    edge_weight,    \* self.rag[u][v]['weight']
    pc,             \* position: "init", "ready", "merging", "merged", "failed"
    threshold,      \* argument of the running merge_until
    max_merges,     \* argument of the running merge_until
    thresh,         \* merge_hierarchical's thresh
    limit,          \* merge_hierarchical's max_merges
    heap,           \* merge_hierarchical's edge heap
    num_merges,     \* merge_hierarchical's merge counter
    cur,            \* the pair (src, dst) being merged
    todo,           \* the neighbours rag.merge_nodes has yet to score
    returned,       \* value returned by the last merge_until
    calls,          \* number of merge_until calls so far
    last,           \* history: the last __merge_nodes call
    merges_done,    \* history: __merge_nodes calls of the current merge_until
    after_init,     \* history: the state __init__ returned
    at_call,        \* history: the state at the last call of merge_until
    absorbed,       \* history: the nodes merged into another node
    scored          \* history: the last __compute_edge_score call since a merge

vars == <<fragments, segmentation, target_lsds, lsds, context, voxel_size,
          downsample, rag_nodes, rag_edges, node, edge_weight, pc, threshold,
          max_merges, thresh, limit, heap, num_merges, cur, todo, returned,
          calls, last, merges_done, after_init, at_call, absorbed, scored>>

\* ------------------------------------------------------------- arithmetic
Min(a, b) == IF a <= b THEN a ELSE b
Max(a, b) == IF a >= b THEN a ELSE b
Abs(a) == IF a < 0 THEN -a ELSE a
FloorDiv(a, d) == a \div d
CeilDiv(a, d) == -((-a) \div d)

\* body with the value bound to its parameter
Bind(value, Body(_)) == CHOOSE r \in {Body(x) : x \in {value}} : TRUE

\* ----------------------------------------------------------------- arrays
ALen(a) == Cardinality(DOMAIN a)
EmptyArr == [i \in {} |-> 0]

\* np.sum(a)
SumArr(a) ==
    LET partial[n \in 0..ALen(a)] ==
            IF n = 0 THEN 0 ELSE a[n - 1] + partial[n - 1]
    IN  partial[ALen(a)]
\* np.sum(a**2)
SumSquares(a) == SumArr([i \in DOMAIN a |-> a[i] * a[i]])

\* a slice bound of python on an axis of length len
NormIdx(i, len) == IF i < 0 THEN Max(i + len, 0) ELSE Min(i, len)
SliceLo(a, roi) == NormIdx(roi.offset, ALen(a))
SliceHi(a, roi) == NormIdx(roi.offset + roi.shape, ALen(a))
\* a[roi.to_slices()]
Slice(a, roi) ==
    Bind(SliceLo(a, roi), LAMBDA lo :
    Bind(SliceHi(a, roi), LAMBDA hi :
        IF hi <= lo THEN EmptyArr ELSE [i \in 0..(hi - lo - 1) |-> a[lo + i]]))
\* the array a after a[roi.to_slices()][mask] = values[mask]
SliceAssign(a, roi, mask, values) ==
    Bind(SliceLo(a, roi), LAMBDA lo :
        [x \in DOMAIN a |->
            IF x - lo \in DOMAIN mask /\ mask[x - lo]
            THEN values[x - lo] ELSE a[x]])

\* ------------------------------------------------------------------- ROIs
Roi(offset, shape) == [offset |-> offset, shape |-> shape]
RoiBegin(r) == r.offset
RoiEnd(r) == r.offset + r.shape
RoiEmpty(r) == r.shape = 0
RoiGrow(r, neg, pos) == Roi(r.offset - neg, r.shape + neg + pos)
RoiIntersects(a, b) ==
    /\ ~RoiEmpty(a)
    /\ ~RoiEmpty(b)
    /\ ~(RoiBegin(a) >= RoiEnd(b) \/ RoiBegin(b) >= RoiEnd(a))
RoiIntersect(a, b) ==
    IF ~RoiIntersects(a, b)
    THEN Roi(0, 0)
    ELSE Bind(Max(RoiBegin(a), RoiBegin(b)), LAMBDA begin :
         Bind(Min(RoiEnd(a), RoiEnd(b)), LAMBDA end :
            Roi(begin, end - begin)))
RoiUnion(a, b) ==
    Bind(Min(RoiBegin(a), RoiBegin(b)), LAMBDA begin :
    Bind(Max(RoiEnd(a), RoiEnd(b)), LAMBDA end :
        Roi(begin, end - begin)))
RoiSnapToGrid(r, d) ==
    Bind(FloorDiv(RoiBegin(r), d) * d, LAMBDA begin :
    Bind(CeilDiv(RoiEnd(r), d) * d, LAMBDA end :
        Roi(begin, end - begin)))
RoiShift(r, by) == Roi(r.offset - by, r.shape)
\* the voxels of the volume a slice by r addresses
RoiVoxels(a, r) == {x \in DOMAIN a : SliceLo(a, r) <= x /\ x < SliceHi(a, r)}

\* -------------------------------------------------------------- extractor
\* the context of the extractor in voxels
ContextVoxels == CeilDiv(context, voxel_size)

\* one channel: the weighted number of voxels of the label within radius
Mass(seg, label, p, radius) ==
    SumArr([q \in DOMAIN seg |->
                IF seg[q] = label /\ Abs(p - q) <= radius
                THEN radius + 1 - Abs(p - q) ELSE 0])
\* the roi of get_descriptors when the argument is omitted: the whole input
WholeRoi(seg) == Roi(0, ALen(seg))
\* lsd_extractor.get_descriptors(seg, roi=roi, labels=[label])
GetDescriptors(seg, roi, label, radius) ==
    Bind([p \in DOMAIN seg |->
            IF seg[p] = label THEN Mass(seg, label, p, radius) ELSE 0],
         LAMBDA full : Slice(full, roi))

\* ---------------------------------------------------------- the agglomerator
Labels == 1..MaxLabels
Voxels == 0..(VolumeLen - 1)

\* find_objects(fragments == u)[0]
FindObject(u) ==
    Bind({x \in DOMAIN fragments : fragments[x] = u}, LAMBDA xs :
        [start |-> CHOOSE x \in xs : \A y \in xs : x <= y,
         stop |-> (CHOOSE x \in xs : \A y \in xs : x >= y) + 1])

\* __slice_to_roi(slices)
SliceToRoi(bb) ==
    RoiSnapToGrid(Roi(bb.start, bb.stop - bb.start), downsample)

\* RAG(fragments, connectivity=2)
RagNodes(frag) == {frag[x] : x \in DOMAIN frag}
RagEdges(frag) ==
    {{frag[x], frag[x + 1]} : x \in {y \in DOMAIN frag :
                                y + 1 \in DOMAIN frag /\ frag[y] # frag[y + 1]}}

\* __compute_node_score(u), with roi the node's 'roi' attribute: the score,
\* the live descriptors after the call, and whether numpy raised on mismatching
\* shapes (the slices of target_lsds and self.lsds against the mask and the
\* descriptors of the slice of the segmentation)
ComputeNodeScore(u, roi) ==
    Bind(Slice(segmentation, roi), LAMBDA seg :
    Bind(GetDescriptors(seg, WholeRoi(seg), u, ContextVoxels), LAMBDA d :
    Bind(Slice(target_lsds, roi), LAMBDA target :
    Bind([i \in DOMAIN seg |-> seg[i] = u], LAMBDA u_mask :
        IF ALen(target) # ALen(seg) \/ ALen(Slice(lsds, roi)) # ALen(seg)
        THEN [raised |-> TRUE, score |-> 0, lsds |-> lsds]
        ELSE [raised |-> FALSE,
              score |-> SumSquares([i \in DOMAIN seg |->
                            IF u_mask[i] THEN target[i] - d[i] ELSE 0]),
              lsds |-> SliceAssign(lsds, roi, u_mask, d)]))))

\* __get_lsds_edge_rois(u, v)
GetLsdsEdgeRois(u, v) ==
    Bind(node[u].roi, LAMBDA roi_u :
    Bind(node[v].roi, LAMBDA roi_v :
    Bind(Roi(0, ALen(segmentation)), LAMBDA total_roi :
    Bind(ContextVoxels, LAMBDA c :
    Bind(RoiGrow(roi_u, c, c), LAMBDA roi_u_grown_1 :
    Bind(RoiGrow(roi_v, c, c), LAMBDA roi_v_grown_1 :
    Bind(RoiIntersect(roi_u_grown_1, total_roi), LAMBDA roi_u_grown :
    Bind(RoiIntersect(roi_v_grown_1, total_roi), LAMBDA roi_v_grown :
    Bind(RoiIntersect(roi_u_grown, roi_v_grown), LAMBDA change_roi_1 :
    Bind(RoiUnion(roi_u, roi_v), LAMBDA union :
    Bind(RoiIntersect(change_roi_1, union), LAMBDA change_roi :
    Bind(RoiGrow(change_roi, c, c), LAMBDA context_roi_1 :
    Bind(RoiIntersect(context_roi_1, union), LAMBDA context_roi :
        [change_roi |-> change_roi, context_roi |-> context_roi]
    )))))))))))))

\* the sum over the voxels of u and v of the squared difference of two arrays
MaskedSquares(target, descriptors, not_uv_mask) ==
    SumSquares([i \in DOMAIN descriptors |->
                  IF not_uv_mask[i] THEN 0 ELSE target[i] - descriptors[i]])

\* the edge score with u marked as v in the live segmentation, not in a copy
ComputeEdgeScoreWithoutCopy(seg_live, u, v) ==
    Bind(GetLsdsEdgeRois(u, v), LAMBDA rois :
    Bind(Slice(seg_live, rois.context_roi), LAMBDA seg :
    Bind(RoiShift(rois.change_roi, RoiBegin(rois.context_roi)),
         LAMBDA change_in_context_roi :
    Bind(Slice(seg, change_in_context_roi), LAMBDA seg_change :
    Bind([i \in DOMAIN seg_change |-> seg_change[i] \notin {u, v}],
         LAMBDA not_uv_mask :
    Bind(Slice(lsds, rois.change_roi), LAMBDA lsds_separate :
    Bind(Slice(target_lsds, rois.change_roi), LAMBDA target :
    Bind([i \in DOMAIN seg |-> IF seg[i] = u THEN v ELSE seg[i]],
         LAMBDA seg_merged :
    Bind(GetDescriptors(seg_merged, change_in_context_roi, v, ContextVoxels),
         LAMBDA lsds_merged :
    Bind(RoiVoxels(seg_live, rois.context_roi), LAMBDA in_context :
    Bind([x \in DOMAIN seg_live |->
            IF x \in in_context /\ seg_live[x] = u THEN v ELSE seg_live[x]],
         LAMBDA seg_marked :
        IF \/ ALen(target) # ALen(lsds_separate)
           \/ ALen(not_uv_mask) # ALen(lsds_separate)
           \/ ALen(lsds_merged) # ALen(lsds_separate)
        THEN [raised |-> TRUE, weight |-> 0, segmentation |-> seg_marked]
        ELSE [raised |-> FALSE,
              weight |-> MaskedSquares(target, lsds_merged, not_uv_mask)
                         - MaskedSquares(target, lsds_separate, not_uv_mask),
              segmentation |-> seg_marked]
    )))))))))))

\* the edge score with the separate score taken over every voxel of the change
\* ROI, not only over the voxels of u and v
ComputeEdgeScoreUnmaskedSeparate(seg_live, u, v) ==
    Bind(GetLsdsEdgeRois(u, v), LAMBDA rois :
    Bind(Slice(seg_live, rois.context_roi), LAMBDA seg :
    Bind(RoiShift(rois.change_roi, RoiBegin(rois.context_roi)),
         LAMBDA change_in_context_roi :
    Bind(Slice(seg, change_in_context_roi), LAMBDA seg_change :
    Bind([i \in DOMAIN seg_change |-> seg_change[i] \notin {u, v}],
         LAMBDA not_uv_mask :
    Bind(Slice(lsds, rois.change_roi), LAMBDA lsds_separate :
    Bind(Slice(target_lsds, rois.change_roi), LAMBDA target :
    Bind([i \in DOMAIN seg |-> IF seg[i] = u THEN v ELSE seg[i]],
         LAMBDA seg_merged :
    Bind(GetDescriptors(seg_merged, change_in_context_roi, v, ContextVoxels),
         LAMBDA lsds_merged :
        IF \/ ALen(target) # ALen(lsds_separate)
           \/ ALen(not_uv_mask) # ALen(lsds_separate)
           \/ ALen(lsds_merged) # ALen(lsds_separate)
        THEN [raised |-> TRUE, weight |-> 0, segmentation |-> seg_live]
        ELSE [raised |-> FALSE,
              weight |-> MaskedSquares(target, lsds_merged, not_uv_mask)
                         - MaskedSquares(target, lsds_separate,
                                         [i \in DOMAIN not_uv_mask |-> FALSE]),
              segmentation |-> seg_live]
    )))))))))

\* __compute_edge_score(u, v) with seg_live the live segmentation at the call:
\* the weight, whether numpy or the assertion raised, and the live
\* segmentation after the call (the relabelling is done on a copy of the slice)
ComputeEdgeScore(seg_live, u, v) ==
    Bind(GetLsdsEdgeRois(u, v), LAMBDA rois :
    Bind(Slice(seg_live, rois.context_roi), LAMBDA seg :
    Bind(RoiShift(rois.change_roi, RoiBegin(rois.context_roi)),
         LAMBDA change_in_context_roi :
    Bind(Slice(seg, change_in_context_roi), LAMBDA seg_change :
    Bind([i \in DOMAIN seg_change |-> seg_change[i] \notin {u, v}],
         LAMBDA not_uv_mask :
    Bind(Slice(lsds, rois.change_roi), LAMBDA lsds_separate :
    Bind(Slice(target_lsds, rois.change_roi), LAMBDA target :
    Bind([i \in DOMAIN seg |-> IF seg[i] = u THEN v ELSE seg[i]],
         LAMBDA seg_merged :
    Bind(GetDescriptors(seg_merged, change_in_context_roi, v, ContextVoxels),
         LAMBDA lsds_merged :
        IF \/ ALen(target) # ALen(lsds_separate)
           \/ ALen(not_uv_mask) # ALen(lsds_separate)
           \/ ALen(lsds_merged) # ALen(lsds_separate)
        THEN [raised |-> TRUE, weight |-> 0, segmentation |-> seg_live]
        ELSE [raised |-> FALSE,
              weight |-> MaskedSquares(target, lsds_merged, not_uv_mask)
                         - MaskedSquares(target, lsds_separate, not_uv_mask),
              segmentation |-> seg_live]
    )))))))))

\* __score_merge(u, v)
ScoreMerge(seg_live, u, v) == ComputeEdgeScore(seg_live, u, v)

\* u replaced by v only within the ROI of v
MergeSegmentationInRoiOfV(u, v) ==
    Bind(RoiVoxels(segmentation, node[v].roi), LAMBDA in_v :
        [x \in DOMAIN segmentation |->
            IF x \in in_v /\ segmentation[x] = u THEN v ELSE segmentation[x]])

\* __merge_segmentation(u, v): the live segmentation after the call
MergeSegmentation(u, v) ==
    Bind(RoiVoxels(segmentation, node[u].roi), LAMBDA in_u :
        [x \in DOMAIN segmentation |->
            IF x \in in_u /\ segmentation[x] = u THEN v ELSE segmentation[x]])

\* the merged descriptors written at the offset of the context ROI
MergedLsdsAtContextRoi(seg_live, u, v) ==
    Bind(GetLsdsEdgeRois(u, v), LAMBDA rois :
    Bind(Slice(seg_live, rois.context_roi), LAMBDA seg :
    Bind(RoiShift(rois.change_roi, RoiBegin(rois.context_roi)),
         LAMBDA change_in_context_roi :
    Bind(GetDescriptors(seg, change_in_context_roi, v, ContextVoxels),
         LAMBDA lsds_merged :
    Bind(Slice(seg, change_in_context_roi), LAMBDA seg_change :
    Bind([i \in DOMAIN seg_change |-> seg_change[i] = v], LAMBDA v_mask :
        [raised |-> FALSE,
         lsds |-> SliceAssign(lsds, rois.context_roi, v_mask, lsds_merged)]
    ))))))

\* the live descriptors left as they were
MergedLsdsNotWritten(seg_live, u, v) == [raised |-> FALSE, lsds |-> lsds]

\* the descriptors __merge_nodes writes on the relabelled segmentation
\* seg_live: the live descriptor volume after the call, and whether numpy
\* raised on a mask that does not fit the slice of the descriptors
MergedLsds(seg_live, u, v) ==
    Bind(GetLsdsEdgeRois(u, v), LAMBDA rois :
    Bind(Slice(seg_live, rois.context_roi), LAMBDA seg :
    Bind(RoiShift(rois.change_roi, RoiBegin(rois.context_roi)),
         LAMBDA change_in_context_roi :
    Bind(GetDescriptors(seg, change_in_context_roi, v, ContextVoxels),
         LAMBDA lsds_merged :
    Bind(Slice(seg, change_in_context_roi), LAMBDA seg_change :
    Bind([i \in DOMAIN seg_change |-> seg_change[i] = v], LAMBDA v_mask :
        IF ALen(v_mask) # ALen(Slice(lsds, rois.change_roi))
        THEN [raised |-> TRUE, lsds |-> lsds]
        ELSE [raised |-> FALSE,
              lsds |-> SliceAssign(lsds, rois.change_roi, v_mask, lsds_merged)]
    ))))))

\* the surviving node's score without the weight of the edge
MergedScoreWithoutWeight(u, v) == node[v].score + node[u].score

\* the score __merge_nodes gives the surviving node
MergedScore(u, v) == node[v].score + node[u].score + edge_weight[{u, v}]

\* the surviving node keeping its own ROI
MergedRoiOfV(u, v) == node[v].roi

\* the ROI __merge_nodes gives the surviving node
MergedRoi(u, v) == RoiUnion(node[u].roi, node[v].roi)

\* a merge that gives the absorbed node the merged ROI and score as well
MergeNodesWritingU(u, v) ==
    Bind(MergeSegmentation(u, v), LAMBDA seg_live :
    Bind(MergedLsds(seg_live, u, v), LAMBDA written :
    Bind([roi |-> MergedRoi(u, v), score |-> MergedScore(u, v)], LAMBDA m :
        [raised |-> written.raised,
         segmentation |-> seg_live,
         lsds |-> written.lsds,
         node |-> [node EXCEPT ![v] = m, ![u] = m]])))

\* __merge_nodes(u, v): segmentation, descriptors and node attributes after
\* the call, or after the exception that ended it
MergeNodes(u, v) ==
    Bind(MergeSegmentation(u, v), LAMBDA seg_live :
    Bind(MergedLsds(seg_live, u, v), LAMBDA written :
        [raised |-> written.raised,
         segmentation |-> seg_live,
         lsds |-> written.lsds,
         node |-> IF written.raised THEN node
                  ELSE [node EXCEPT ![v] = [roi |-> MergedRoi(u, v),
                                            score |-> MergedScore(u, v)]]]))

\* ------------------------------------------------------------ construction
\* fragment volumes, labels numbered in order of first appearance
FragmentVolumes ==
    {f \in [Voxels -> Labels] :
        \A x \in Voxels :
            f[x] = 1 \/ \E y \in Voxels : y < x /\ f[y] = f[x] - 1}

\* target descriptor volumes: of the shape of the fragments, or one voxel
\* shorter or longer with one value throughout
TargetVolumes ==
    [Voxels -> TargetValues]
        \cup {[x \in 0..(VolumeLen - 2) |-> t] : t \in TargetValues}
        \cup {[x \in 0..VolumeLen |-> t] : t \in TargetValues}

\* the context of the extractor and the voxel size: whole voxels of context
\* with the default voxel size, and half a voxel less with voxels of size 2
Extractors ==
    {[context |-> c, voxel_size |-> 1] : c \in 0..MaxContext}
        \cup {[context |-> 2 * MaxContext - 1, voxel_size |-> 2]}

NoMerge == [u |-> 0, v |-> 0, weight |-> 0, item |-> 0, fresh |-> 0,
            node |-> <<>>, lsds |-> <<>>,
            segmentation |-> <<>>, rois |-> <<>>, edge_weight |-> <<>>,
            rag_nodes |-> {}, rag_edges |-> {}, absorbed |-> {}]

NoScore == [u |-> 0, v |-> 0, weight |-> 0, rois |-> <<>>, before |-> <<>>]

\* the live state a history variable records
Snapshot == [segmentation |-> segmentation, lsds |-> lsds, node |-> node,
             edge_weight |-> edge_weight]

\* __init__ up to the call of __initialize_rag, and the RAG of the fragments
Init ==
    /\ fragments \in FragmentVolumes
    /\ segmentation = fragments
    /\ target_lsds \in TargetVolumes
    /\ lsds = [x \in DOMAIN target_lsds |-> 0]
    /\ \E x \in Extractors : context = x.context /\ voxel_size = x.voxel_size
    /\ downsample \in Downsamples
    /\ rag_nodes = RagNodes(fragments)
    /\ rag_edges = RagEdges(fragments)
    /\ node = <<>>
    /\ edge_weight = <<>>
    /\ pc = "init"
    /\ threshold = 0
    /\ max_merges = -1
    /\ thresh = 0
    /\ limit = -1
    /\ heap = {}
    /\ num_merges = 0
    /\ cur = <<0, 0>>
    /\ todo = {}
    /\ returned = -1
    /\ calls = 0
    /\ last = NoMerge
    /\ merges_done = 0
    /\ after_init = <<>>
    /\ at_call = <<>>
    /\ absorbed = {}
    /\ scored = NoScore

\* the nodes and edges __initialize_rag has not reached yet
UnscoredNodes == rag_nodes \ DOMAIN node
UnscoredEdges == rag_edges \ DOMAIN edge_weight
EdgeLo(e) == CHOOSE u \in e : \A w \in e : u <= w
EdgeHi(e) == CHOOSE u \in e : \A w \in e : u >= w
EdgeBefore(e, f) ==
    \/ EdgeLo(e) < EdgeLo(f)
    \/ EdgeLo(e) = EdgeLo(f) /\ EdgeHi(e) <= EdgeHi(f)

\* the loop over the edges starting once one node is scored
NodeLoopDoneEarly == node # <<>>
\* __initialize_rag: the loop over the nodes has ended
NodeLoopDone == UnscoredNodes = {}

\* __initialize_rag, one pass of the loop over the nodes
InitNode ==
    /\ pc = "init"
    /\ UnscoredNodes # {}
    /\ \E u \in {n \in UnscoredNodes : \A m \in UnscoredNodes : n <= m} :
       \E roi \in {SliceToRoi(FindObject(u))} :
       \E res \in {ComputeNodeScore(u, roi)} :
           IF res.raised
           THEN /\ pc' = "failed"
                /\ UNCHANGED <<node, lsds>>
           ELSE /\ node' = node @@ (u :> [roi |-> roi, score |-> res.score])
                /\ lsds' = res.lsds
                /\ pc' = pc
    /\ UNCHANGED <<fragments, segmentation, target_lsds, context, voxel_size,
                   downsample, rag_nodes, rag_edges, edge_weight, threshold,
                   max_merges, thresh, limit, heap, num_merges, cur, todo,
                   returned, calls, last, merges_done, after_init, at_call,
                   absorbed, scored>>

\* __initialize_rag, one pass of the loop over the edges; reading the 'roi'
\* of a node that has none raises
InitEdge ==
    /\ pc = "init"
    /\ NodeLoopDone
    /\ UnscoredEdges # {}
    /\ \E e \in {f \in UnscoredEdges :
                    \A g \in UnscoredEdges : EdgeBefore(f, g)} :
       \E u \in e : \E v \in e \ {u} :
           IF ~(e \subseteq DOMAIN node)
           THEN /\ pc' = "failed"
                /\ scored' = [u |-> u, v |-> v, weight |-> 0, rois |-> <<>>,
                              before |-> Snapshot]
                /\ UNCHANGED <<edge_weight, segmentation>>
           ELSE \E score \in {ScoreMerge(segmentation, u, v)} :
                   /\ IF score.raised
                      THEN /\ pc' = "failed"
                           /\ UNCHANGED <<edge_weight, segmentation>>
                      ELSE /\ edge_weight' = edge_weight @@ (e :> score.weight)
                           /\ segmentation' = score.segmentation
                           /\ pc' = pc
                   /\ scored' = [u |-> u, v |-> v, weight |-> score.weight,
                                 rois |-> GetLsdsEdgeRois(u, v),
                                 before |-> Snapshot]
    /\ UNCHANGED <<fragments, target_lsds, lsds, context, voxel_size,
                   downsample, rag_nodes, rag_edges, node, threshold,
                   max_merges, thresh, limit, heap, num_merges, cur, todo,
                   returned, calls, last, merges_done, after_init, at_call,
                   absorbed>>

\* __init__ returns
InitDone ==
    /\ pc = "init"
    /\ UnscoredNodes = {}
    /\ UnscoredEdges = {}
    /\ pc' = "ready"
    /\ after_init' = Snapshot
    /\ UNCHANGED <<fragments, segmentation, target_lsds, lsds, context,
                   voxel_size, downsample, rag_nodes, rag_edges, node,
                   edge_weight, threshold, max_merges, thresh, limit, heap,
                   num_merges, cur, todo, returned, calls, last, merges_done,
                   at_call, absorbed, scored>>

\* -------------------------------------------------------------- merge_until
\* the callbacks merge_until hands to merge_hierarchical
MergeFunc(src, dst) == MergeNodes(src, dst)
\* a weight callback that scores the absorbed node against the neighbour
WeightFuncOfSrc(seg_live, src, u, v) == ScoreMerge(seg_live, src, v)
\* the weight callback of merge_until
WeightFunc(seg_live, src, u, v) == ScoreMerge(seg_live, u, v)
\* merge_hierarchical given a threshold above the one of merge_until
MergeHierarchicalArgsRaisedThresh(t, m) == [thresh |-> t + 8, max_merges |-> m]
\* merge_hierarchical given a threshold that is not the one of merge_until
MergeHierarchicalArgsFixedThresh(t, m) == [thresh |-> 8, max_merges |-> m]
\* merge_hierarchical given no limit on the merges
MergeHierarchicalArgsNoLimit(t, m) == [thresh |-> t, max_merges |-> -1]

\* the arguments merge_until hands to merge_hierarchical
MergeHierarchicalArgs(t, m) == [thresh |-> t, max_merges |-> m]

Neighbors(n) == {w \in rag_nodes : {n, w} \in rag_edges}
HeapItem(w, e) == [weight |-> w, edge |-> e, valid |-> TRUE]
\* the heap with no item marked invalid
InvalidateNothing(h, n) == h
\* the heap with every item of an edge at node n marked invalid
Invalidate(h, n) ==
    {IF n \in x.edge THEN [x EXCEPT !.valid = FALSE] ELSE x : x \in h}
\* every item of the heap taken for its top
AnyItems == heap
\* the items at the top of the heap
MinItems == {x \in heap : \A y \in heap : x.weight <= y.weight}
\* the loop of merge_hierarchical goes on
Continues ==
    /\ heap # {}
    /\ \E x \in MinItems : x.weight <= thresh
    /\ ~(limit >= 0 /\ num_merges >= limit)

\* merge_until(threshold, max_merges) is called: merge_hierarchical seeds its
\* heap with the edges of the RAG
MergeUntil(t, m) ==
    /\ pc = "ready"
    /\ calls < MaxCalls
    /\ calls' = calls + 1
    /\ threshold' = t
    /\ max_merges' = m
    /\ thresh' = MergeHierarchicalArgs(t, m).thresh
    /\ limit' = MergeHierarchicalArgs(t, m).max_merges
    /\ heap' = {HeapItem(edge_weight[e], e) : e \in rag_edges}
    /\ num_merges' = 0
    /\ merges_done' = 0
    /\ at_call' = Snapshot
    /\ pc' = "merging"
    /\ UNCHANGED <<fragments, segmentation, target_lsds, lsds, context,
                   voxel_size, downsample, rag_nodes, rag_edges, node,
                   edge_weight, cur, todo, returned, last, after_init,
                   absorbed, scored>>

\* an item marked invalid is looked at and left on the heap
PopStaleKeepsItem ==
    /\ pc = "merging"
    /\ Continues
    /\ \E x \in MinItems : ~x.valid
    /\ UNCHANGED vars

\* an item marked invalid is popped and dropped
PopStale ==
    /\ pc = "merging"
    /\ Continues
    /\ \E x \in MinItems :
        /\ ~x.valid
        /\ heap' = heap \ {x}
    /\ UNCHANGED <<fragments, segmentation, target_lsds, lsds, context,
                   voxel_size, downsample, rag_nodes, rag_edges, node,
                   edge_weight, pc, threshold, max_merges, thresh, limit,
                   num_merges, cur, todo, returned, calls, last, merges_done,
                   after_init, at_call, absorbed, scored>>

\* a valid item is popped, the items of its two nodes are marked invalid, and
\* the merge callback merges src into dst
PopAndMerge ==
    /\ pc = "merging"
    /\ Continues
    /\ \E x \in MinItems : \E src \in x.edge : \E dst \in x.edge \ {src} :
        /\ x.valid
        /\ heap' = Invalidate(Invalidate(heap \ {x}, src), dst)
        /\ \E merged \in {MergeFunc(src, dst)} :
               /\ segmentation' = merged.segmentation
               /\ lsds' = merged.lsds
               /\ node' = merged.node
               /\ pc' = IF merged.raised THEN "failed" ELSE "merged"
        /\ cur' = <<src, dst>>
        /\ absorbed' = absorbed \cup {src}
        /\ todo' = (Neighbors(src) \cup Neighbors(dst)) \ {src, dst}
        /\ last' = [u |-> src, v |-> dst, weight |-> edge_weight[{src, dst}],
                    item |-> x.weight,
                    fresh |-> ComputeEdgeScore(segmentation, src, dst).weight,
                    node |-> node, lsds |-> lsds,
                    segmentation |-> segmentation,
                    rois |-> GetLsdsEdgeRois(src, dst),
                    edge_weight |-> edge_weight,
                    rag_nodes |-> rag_nodes, rag_edges |-> rag_edges,
                    absorbed |-> absorbed]
    /\ num_merges' = num_merges + 1
    /\ merges_done' = merges_done + 1
    /\ scored' = NoScore
    /\ UNCHANGED <<fragments, target_lsds, context, voxel_size, downsample,
                   rag_nodes, rag_edges, edge_weight, threshold, max_merges,
                   thresh, limit, returned, calls, after_init, at_call>>

\* rag.merge_nodes(src, dst, weight_func), one pass of its loop over the
\* neighbours of src and dst: the weight callback gives the edge to dst its
\* weight
RagMergeNodesEdge ==
    /\ pc = "merged"
    /\ todo # {}
    /\ \E src \in {cur[1]} : \E dst \in {cur[2]} :
       \E w \in {n \in todo : \A m \in todo : n <= m} :
       \E score \in {WeightFunc(segmentation, src, dst, w)} :
           /\ IF score.raised
              THEN /\ pc' = "failed"
                   /\ UNCHANGED <<segmentation, rag_edges, edge_weight, todo>>
              ELSE /\ pc' = pc
                   /\ segmentation' = score.segmentation
                   /\ rag_edges' = rag_edges \cup {{w, dst}}
                   /\ edge_weight' =
                         [e \in DOMAIN edge_weight \cup {{w, dst}} |->
                             IF e = {w, dst} THEN score.weight
                             ELSE edge_weight[e]]
                   /\ todo' = todo \ {w}
           /\ scored' = [u |-> dst, v |-> w, weight |-> score.weight,
                         rois |-> GetLsdsEdgeRois(dst, w),
                         before |-> Snapshot]
    /\ UNCHANGED <<fragments, target_lsds, lsds, context, voxel_size,
                   downsample, rag_nodes, node, threshold, max_merges, thresh,
                   limit, heap, num_merges, cur, returned, calls, last,
                   merges_done, after_init, at_call, absorbed>>

\* rag.merge_nodes removes src with its edges, and the edges of the merged
\* node are pushed on the heap
RagMergeNodesDone ==
    /\ pc = "merged"
    /\ todo = {}
    /\ \E src \in {cur[1]} : \E dst \in {cur[2]} :
       \E edges \in {{e \in rag_edges : src \notin e}} :
           /\ rag_nodes' = rag_nodes \ {src}
           /\ rag_edges' = edges
           /\ edge_weight' = [e \in edges |-> edge_weight[e]]
           /\ heap' = heap \cup {HeapItem(edge_weight[e], e) :
                                    e \in {f \in edges : dst \in f}}
    /\ pc' = "merging"
    /\ UNCHANGED <<fragments, segmentation, target_lsds, lsds, context,
                   voxel_size, downsample, node, threshold, max_merges, thresh,
                   limit, num_merges, cur, todo, returned, calls, last,
                   merges_done, after_init, at_call, absorbed, scored>>

\* merge_hierarchical ends and merge_until returns the number of merges
MergeUntilReturn ==
    /\ pc = "merging"
    /\ ~Continues
    /\ returned' = num_merges
    /\ heap' = {}
    /\ pc' = "ready"
    /\ UNCHANGED <<fragments, segmentation, target_lsds, lsds, context,
                   voxel_size, downsample, rag_nodes, rag_edges, node,
                   edge_weight, threshold, max_merges, thresh, limit,
                   num_merges, cur, todo, calls, last, merges_done, after_init,
                   at_call, absorbed, scored>>

Next ==
    \/ InitNode
    \/ InitEdge
    \/ InitDone
    \/ \E t \in Thresholds : \E m \in MaxMergesArgs : MergeUntil(t, m)
    \/ PopStale
    \/ PopAndMerge
    \/ RagMergeNodesEdge
    \/ RagMergeNodesDone
    \/ MergeUntilReturn

Spec == Init /\ [][Next]_vars

\* a call of merge_until runs on without a pause until it returns or raises:
\* merge_hierarchical is one sequential loop
MergeUntilRuns ==
    \/ PopStale
    \/ PopAndMerge
    \/ RagMergeNodesEdge
    \/ RagMergeNodesDone
    \/ MergeUntilReturn

FairSpec == Spec /\ WF_vars(MergeUntilRuns)

\* ------------------------------------------------------------- properties
\* a merge has been made and the call it belongs to has not raised
Merged == last.u # 0 /\ pc # "failed"
\* a merge has been made and the graph is yet to be updated for it
JustMerged == pc = "merged"
\* voxel x lies within the ROI r
InRoi(x, r) == RoiBegin(r) <= x /\ x < RoiEnd(r)
\* an edge score has been computed since the last merge
Scored == scored.u # 0 /\ pc # "failed"

\* C1: after __merge_nodes has merged u into v, the score of v is the score of
\* u before the merge plus the score of v before the merge plus the weight
\* stored on the edge (u, v) at the merge
ScoreAdditivity ==
    Merged =>
        node[last.v].score =
            last.node[last.u].score + last.node[last.v].score
                + last.edge_weight[{last.u, last.v}]
ScoreAdditivityWitness ==
    /\ Merged
    /\ last.edge_weight[{last.u, last.v}] # 0
    /\ last.node[last.u].score # 0
    /\ last.node[last.v].score # 0

\* C2: every merge merge_until(threshold) makes is of an edge whose weight
\* when it is selected, as stored on the edge and as computed anew, is at most
\* the threshold
MergeWithinThreshold ==
    JustMerged =>
        /\ last.weight <= threshold
        /\ last.item = last.weight
        /\ last.fresh <= threshold
MergeWithinThresholdWitness ==
    /\ JustMerged
    /\ absorbed # {last.u}
    /\ last.weight # 0
    /\ \/ {last.u, last.v} \notin DOMAIN at_call.edge_weight
       \/ at_call.edge_weight[{last.u, last.v}] # last.weight

\* C3: every voxel of the segmentation carries the id of a node of the graph
\* that has not been merged into another node
SegmentationConsistency ==
    \A x \in DOMAIN segmentation : segmentation[x] \in rag_nodes \ absorbed
SegmentationConsistencyWitness ==
    /\ pc = "ready"
    /\ Cardinality(absorbed) = 2
    /\ \E x \in DOMAIN fragments : fragments[x] \in absorbed

\* C4: a merge of u into v leaves the live descriptors as they were at every
\* voxel outside the context ROI of (u, v) and at every voxel outside the
\* change ROI of (u, v), the ROIs taken from the node ROIs before the merge
MergeLocality ==
    JustMerged =>
        \A x \in DOMAIN lsds :
            /\ ~InRoi(x, last.rois.context_roi) => lsds[x] = last.lsds[x]
            /\ ~InRoi(x, last.rois.change_roi) => lsds[x] = last.lsds[x]
MergeLocalityWitness ==
    /\ JustMerged
    /\ \E x \in DOMAIN lsds : lsds[x] # last.lsds[x]
    /\ \E x \in DOMAIN segmentation :
        /\ InRoi(x, last.rois.context_roi)
        /\ ~InRoi(x, last.rois.change_roi)
        /\ segmentation[x] = last.v

\* C5: __compute_edge_score(u, v) leaves the live segmentation, the live
\* descriptors, the node ROIs and scores and the weights of the other edges
\* as they were, and called again before any merge it returns the same value
EdgeScorePure ==
    Scored =>
        /\ segmentation = scored.before.segmentation
        /\ lsds = scored.before.lsds
        /\ node = scored.before.node
        /\ \A e \in (DOMAIN edge_weight \cap DOMAIN scored.before.edge_weight)
                        \ {{scored.u, scored.v}} :
                edge_weight[e] = scored.before.edge_weight[e]
        /\ ComputeEdgeScore(segmentation, scored.u, scored.v).weight
              = scored.weight
EdgeScorePureWitness ==
    /\ Scored
    /\ scored.weight # 0
    /\ absorbed # {}
    /\ \E x \in RoiVoxels(segmentation, scored.rois.context_roi) :
           segmentation[x] = scored.u

\* C6: a call merge_until(threshold, max_merges) with max_merges >= 0 makes at
\* most max_merges merges, and the value it returns is the number of
\* __merge_nodes calls it made
MergeLimit ==
    (calls >= 1 /\ pc # "failed") =>
        /\ max_merges >= 0 => merges_done <= max_merges
        /\ pc = "ready" => returned = merges_done
MergeLimitWitness ==
    /\ pc = "ready"
    /\ max_merges = 1
    /\ returned = 1
    /\ \E e \in rag_edges : edge_weight[e] <= threshold

\* the threshold of the running call is below the weight of every edge the
\* graph had at the call
BelowEveryWeight ==
    /\ calls >= 1
    /\ pc # "failed"
    /\ \A e \in DOMAIN at_call.edge_weight :
           threshold < at_call.edge_weight[e]

\* C7: a call of merge_until with a threshold below the weight of every edge
\* makes no merge, returns 0, and leaves the segmentation, the live
\* descriptors, the node ROIs and scores and the edge weights as they were at
\* the call, which is as __init__ left them if no merge was made before
NoMergeBelowThreshold ==
    BelowEveryWeight =>
        /\ merges_done = 0
        /\ pc = "ready" => returned = 0
        /\ Snapshot = at_call
        /\ absorbed = {} => Snapshot = after_init
NoMergeBelowThresholdWitness ==
    /\ BelowEveryWeight
    /\ pc = "ready"
    /\ Cardinality(rag_edges) = 2
    /\ \E e \in rag_edges : edge_weight[e] <= 8

\* C8: with a target descriptor volume whose shape is not the shape of the
\* fragments, __init__ raises and returns no agglomerator
ShapeMismatchRaises ==
    ALen(target_lsds) # ALen(fragments) => pc \in {"init", "failed"}

\* C9: when the change ROI or the context ROI of a pair is empty,
\* __compute_edge_score and __merge_nodes raise instead of going on
EmptyRoiRaises ==
    /\ (/\ scored.u # 0
        /\ \/ RoiEmpty(scored.rois.change_roi)
           \/ RoiEmpty(scored.rois.context_roi)) => pc = "failed"
    /\ (/\ last.u # 0
        /\ \/ RoiEmpty(last.rois.change_roi)
           \/ RoiEmpty(last.rois.context_roi)) => pc = "failed"

\* C10: after __init__ and after every merge, the live descriptor of every
\* voxel is the descriptor the extractor computes at the voxel for the
\* voxel's label on the whole current segmentation
LiveDescriptors ==
    pc \in {"ready", "merging", "merged"} =>
        \A x \in DOMAIN segmentation :
            lsds[x] = Mass(segmentation, segmentation[x], x, ContextVoxels)
LiveDescriptorsWitness ==
    /\ JustMerged
    /\ \E x \in DOMAIN segmentation :
        /\ lsds[x] # last.lsds[x]
        /\ last.segmentation[x] = last.v
    /\ \E x \in DOMAIN segmentation :
        /\ lsds[x] # last.lsds[x]
        /\ last.segmentation[x] = last.u

\* the nodes of the graph not merged into another node
Surviving == rag_nodes \ absorbed
\* __init__ has returned and merge_until has not been called yet
Initialized == pc = "ready" /\ calls = 0
\* the squared difference at voxel x between the target and the descriptor of
\* label n on the whole current segmentation
SquaredError(n, x) ==
    Bind(target_lsds[x] - Mass(segmentation, n, x, ContextVoxels),
         LAMBDA d : d * d)
\* the score of node n computed from scratch on the current segmentation
ScoreFromScratch(n) ==
    SumArr([x \in DOMAIN segmentation |->
                IF segmentation[x] = n THEN SquaredError(n, x) ELSE 0])

\* C11: after __init__ and after every merge, the score stored on every
\* surviving node is the sum over the voxels labelled with the node of the
\* squared difference between the descriptor of the current segmentation and
\* the target
NodeScoreExact ==
    (Initialized \/ JustMerged) =>
        \A n \in Surviving : node[n].score = ScoreFromScratch(n)
NodeScoreExactWitness ==
    /\ JustMerged
    /\ Cardinality(absorbed) = 2
    /\ last.weight # 0
    /\ node[last.v].score # 0

\* the merge callback and the scoring of the edges of the merged node are done
Rescored == pc = "merged" /\ todo = {}

RoiWithinVolume ==
    /\ \A n \in DOMAIN node :
        /\ RoiBegin(node[n].roi) >= 0
        /\ RoiEnd(node[n].roi) <= ALen(segmentation)
    /\ scored.u # 0 =>
        /\ RoiEnd(scored.rois.change_roi) <= ALen(segmentation)
        /\ RoiEnd(scored.rois.context_roi) <= ALen(segmentation)
    /\ last.u # 0 =>
        /\ RoiEnd(last.rois.change_roi) <= ALen(segmentation)
        /\ RoiEnd(last.rois.context_roi) <= ALen(segmentation)

\* C14: after __init__ and after every merge, the ROI of every surviving node
\* contains every voxel labelled with the node
NodeRoiContainsVoxels ==
    pc \in {"ready", "merging", "merged"} =>
        \A n \in Surviving : \A x \in DOMAIN segmentation :
            segmentation[x] = n => InRoi(x, node[n].roi)
NodeRoiContainsVoxelsWitness ==
    /\ JustMerged
    /\ node[last.v].roi # last.node[last.v].roi
    /\ node[last.v].roi # last.node[last.u].roi
    /\ Cardinality(absorbed) = 2

\* C15: the merge callback is only called for two surviving nodes joined by an
\* edge of the graph; every valid item of the heap is an edge between
\* surviving nodes with its current weight, an item of an absorbed node is
\* invalid, and the merge counter counts the calls of the callback only
MergeOnlyLiveEdges ==
    /\ pc = "merging" =>
        \A x \in heap :
            x.valid => /\ x.edge \in rag_edges
                       /\ x.edge \cap absorbed = {}
                       /\ x.weight = edge_weight[x.edge]
    /\ last.u # 0 =>
        /\ {last.u, last.v} \in last.rag_edges
        /\ {last.u, last.v} \subseteq last.rag_nodes \ last.absorbed
    /\ pc \in {"merging", "merged"} => num_merges = merges_done
MergeOnlyLiveEdgesWitness ==
    /\ pc = "merging"
    /\ num_merges = 1
    /\ \E x \in MinItems : ~x.valid /\ x.weight <= thresh
    /\ \E y \in heap : y.valid /\ y.weight <= thresh

\* C16: every merge of merge_until is of an edge whose weight is the least of
\* the weights of the edges of the graph when it is selected
GreedySelection ==
    JustMerged =>
        \A e \in last.rag_edges : last.weight <= last.edge_weight[e]
GreedySelectionWitness ==
    /\ JustMerged
    /\ \E e \in last.rag_edges :
        /\ last.edge_weight[e] > last.weight
        /\ last.edge_weight[e] <= threshold

\* C17: in __init__ no edge is scored while a node has no ROI and score, and
\* at every edge scoring the live descriptors of all voxels are written
NodesBeforeEdges ==
    /\ DOMAIN edge_weight # {} => UnscoredNodes = {}
    /\ scored.u # 0 => rag_nodes \subseteq DOMAIN scored.before.node
    /\ (scored.u # 0 /\ calls = 0) =>
        \A x \in DOMAIN segmentation :
            scored.before.lsds[x] =
                Mass(fragments, fragments[x], x, ContextVoxels)
NodesBeforeEdgesWitness ==
    /\ pc = "init"
    /\ scored.u # 0
    /\ Cardinality(rag_nodes) = 3
    /\ UnscoredEdges # {}

\* C18: __merge_nodes(u, v) adds and removes no node and no edge and changes
\* no edge weight; of the node attributes it changes only the ROI and the
\* score of v
MergeNodesFrame ==
    JustMerged =>
        /\ DOMAIN node = DOMAIN last.node
        /\ \A n \in DOMAIN node \ {last.v} : node[n] = last.node[n]
        /\ rag_nodes = last.rag_nodes
        /\ scored.u = 0 =>
            /\ rag_edges = last.rag_edges
            /\ edge_weight = last.edge_weight
MergeNodesFrameWitness ==
    /\ JustMerged
    /\ scored.u = 0
    /\ Cardinality(rag_nodes) = 3
    /\ node[last.v].roi # last.node[last.v].roi
    /\ node[last.v].score # last.node[last.v].score
    /\ node[last.u].score # node[last.v].score

\* merge_until is running
InCall == pc \in {"merging", "merged"}
\* merge_until has returned
Returned == pc = "ready" /\ calls >= 1

\* C19: every call of merge_until returns; when it returns every edge of the
\* graph has a weight above the threshold (or no edge is left) or the limit of
\* merges is reached, and the merges made are at most the number of fragments
\* less one
MergeUntilTerminates ==
    /\ [](/\ Cardinality(absorbed) <= Cardinality(RagNodes(fragments)) - 1
          /\ InCall => merges_done <= Cardinality(absorbed)
          /\ Returned =>
              \/ \A e \in rag_edges : edge_weight[e] > threshold
              \/ max_merges >= 0 /\ returned >= max_merges)
    /\ InCall ~> Returned
MergeUntilTerminatesWitness ==
    /\ Returned
    /\ max_merges = -1
    /\ returned = 2
    /\ rag_edges = {}
    /\ Cardinality(RagNodes(fragments)) = 3

====
